---- MODULE Spec2Model ----
(***************************************************************************)
(* Model of sidco_scraper.py: the listing parser parsear_tabla_incendios,  *)
(* the detail parser parsear_ficha_incendio and the orchestration loop     *)
(* scrapear_incendios_y_fichas.                                            *)
(*                                                                         *)
(* Text is a sequence of one-character strings where the code looks inside *)
(* it (numbers, dates, the onclick attribute) and a sequence of text       *)
(* fragments where the code only tests containment or equality.            *)
(* A parsed document is the tree BeautifulSoup hands to the code: elements *)
(* in document order, each with the attributes and children the code reads.*)
(*                                                                         *)
(* A local value of the code that is used more than once is bound with     *)
(*   CHOOSE out \in {body : x \in {value}} : TRUE                           *)
(* which is "LET x == value IN body" with x computed once.                 *)
(***************************************************************************)
EXTENDS Integers, Sequences, FiniteSets, TLC

VARIABLES pc, html_page, tabla_incendios, tabla_ret, html_ficha, ficha_ret,
          df, idx, log

vars == <<pc, html_page, tabla_incendios, tabla_ret, html_ficha, ficha_ret,
          df, idx, log>>

(***************************************************************************)
(* Bounds of the checked input space.                                      *)
(***************************************************************************)
MaxElems == 3
MaxRows == 2

(***************************************************************************)
(* Python values.                                                          *)
(***************************************************************************)
None == [some |-> FALSE]
Some(v) == [some |-> TRUE, val |-> v]

ValueError(m) == [raised |-> TRUE, exc |-> "ValueError", msg |-> m]
AttributeError(m) == [raised |-> TRUE, exc |-> "AttributeError", msg |-> m]
Returned(v) == [raised |-> FALSE, val |-> v]

SIDCO_BASE == <<"https://sidco.conaf.cl">>

Digits == {"0", "1", "2", "3", "4", "5", "6", "7", "8", "9"}

DigitVal(c) ==
    CASE c = "0" -> 0 [] c = "1" -> 1 [] c = "2" -> 2 [] c = "3" -> 3
      [] c = "4" -> 4 [] c = "5" -> 5 [] c = "6" -> 6 [] c = "7" -> 7
      [] c = "8" -> 8 [] c = "9" -> 9

RECURSIVE IntOf(_)
IntOf(ds) ==
    IF ds = <<>> THEN 0
    ELSE IntOf(SubSeq(ds, 1, Len(ds) - 1)) * 10 + DigitVal(ds[Len(ds)])

Count(s, c) == Cardinality({i \in DOMAIN s : s[i] = c})

(* needle in text, for a text kept as fragments *)
Contains(text, needle) == \E i \in DOMAIN text : text[i] = needle

(* str.replace(old, new) for a one-character old; new is <<>> or one char *)
Replace(s, old, new) ==
    LET RECURSIVE Go(_)
        Go(k) == IF k > Len(s) THEN <<>>
                 ELSE (IF s[k] = old THEN new ELSE <<s[k]>>) \o Go(k + 1)
    IN Go(1)

(***************************************************************************)
(* float(text), on texts over digits, ".", "-", "+" and other characters:  *)
(* an optional sign, then digits with at most one point and at least one   *)
(* digit; anything else raises ValueError.  The value is num / 10^scale    *)
(* with trailing zeros of the fraction removed, so 1.50 and 1.5 are equal. *)
(***************************************************************************)
RECURSIVE Normal(_, _)
Normal(num, scale) ==
    IF scale > 0 /\ num % 10 = 0 THEN Normal(num \div 10, scale - 1)
    ELSE [num |-> num, scale |-> scale]

IsFloatLiteral(s) ==
    LET body == IF s # <<>> /\ s[1] \in {"-", "+"} THEN Tail(s) ELSE s
    IN /\ \A i \in DOMAIN body : body[i] \in Digits \cup {"."}
       /\ Count(body, ".") <= 1
       /\ \E i \in DOMAIN body : body[i] \in Digits

PyFloat(s) ==
    IF ~IsFloatLiteral(s) THEN ValueError("could not convert string to float")
    ELSE LET neg == s[1] = "-"
             body == IF s[1] \in {"-", "+"} THEN Tail(s) ELSE s
             point == IF Count(body, ".") = 0 THEN Len(body) + 1
                      ELSE CHOOSE i \in DOMAIN body : body[i] = "."
             digs == SelectSeq(body, LAMBDA c : c # ".")
             mag == Normal(IntOf(digs), Len(body) + 1 - point
                                          - (IF point > Len(body) THEN 0 ELSE 1))
         IN Returned([num |-> IF neg THEN 0 - mag.num ELSE mag.num,
                      scale |-> mag.scale])

(***************************************************************************)
(* datetime.strptime(text, "%d-%b-%Y %H:%M") in the C locale: day, "-",    *)
(* month abbreviation (case-insensitive in Python; texts here are lower    *)
(* case), "-", four-digit year, whitespace, hour, ":", minute, and nothing *)
(* after; then the datetime constructor rejects a day the month lacks.     *)
(***************************************************************************)
MaxDayDigits == 2
YearDigits == 4

(* the longest run of at most n digits of s starting at position p *)
RECURSIVE DigitRun(_, _, _)
DigitRun(s, p, n) ==
    IF n = 0 \/ p > Len(s) \/ s[p] \notin Digits THEN <<>>
    ELSE <<s[p]>> \o DigitRun(s, p + 1, n - 1)

RECURSIVE SkipSpaces(_, _)
SkipSpaces(s, p) == IF p <= Len(s) /\ s[p] = " " THEN SkipSpaces(s, p + 1) ELSE p

MonthOf(m) ==
    CASE m = <<"j", "a", "n">> -> 1 [] m = <<"f", "e", "b">> -> 2
      [] m = <<"m", "a", "r">> -> 3 [] m = <<"a", "p", "r">> -> 4
      [] m = <<"m", "a", "y">> -> 5 [] m = <<"j", "u", "n">> -> 6
      [] m = <<"j", "u", "l">> -> 7 [] m = <<"a", "u", "g">> -> 8
      [] m = <<"s", "e", "p">> -> 9 [] m = <<"o", "c", "t">> -> 10
      [] m = <<"n", "o", "v">> -> 11 [] m = <<"d", "e", "c">> -> 12
      [] OTHER -> 0

DaysIn(year, month) ==
    IF month = 2
    THEN (IF (year % 4 = 0 /\ year % 100 # 0) \/ year % 400 = 0 THEN 29 ELSE 28)
    ELSE IF month \in {4, 6, 9, 11} THEN 30 ELSE 31

Strptime(s) ==
    LET bad == ValueError("time data does not match format")
        d == DigitRun(s, 1, MaxDayDigits)
        p1 == 1 + Len(d)
        mon == IF p1 + 3 <= Len(s) THEN MonthOf(SubSeq(s, p1 + 1, p1 + 3)) ELSE 0
        p2 == p1 + 4
        y == DigitRun(s, p2 + 1, YearDigits)
        p3 == p2 + 1 + Len(y)
        p4 == SkipSpaces(s, p3)
        h == DigitRun(s, p4, 2)
        p5 == p4 + Len(h)
        mi == DigitRun(s, p5 + 1, 2)
        p6 == p5 + 1 + Len(mi)
    IN IF \/ d = <<>> \/ IntOf(d) \notin 1..31
          \/ p1 > Len(s) \/ s[p1] # "-"
          \/ mon = 0
          \/ p2 > Len(s) \/ s[p2] # "-"
          \/ Len(y) # YearDigits
          \/ p4 = p3
          \/ h = <<>> \/ IntOf(h) > 23
          \/ p5 > Len(s) \/ s[p5] # ":"
          \/ mi = <<>> \/ IntOf(mi) > 59
          \/ p6 # Len(s) + 1
       THEN bad
       ELSE IF IntOf(y) < 1 \/ IntOf(d) > DaysIn(IntOf(y), mon)
            THEN ValueError("day is out of range for month")
            ELSE Returned([year |-> IntOf(y), month |-> mon, day |-> IntOf(d),
                           hour |-> IntOf(h), minute |-> IntOf(mi)])

(***************************************************************************)
(* The listing document.  html_page.elems are the h1 and table elements in *)
(* document order; html_page.rows are the <tr> of the <tbody> of a table   *)
(* that has one, each a sequence of <td>.  A <td> is                       *)
(*   [text: its stripped text, spans: its <span>s, anchors: its <a>s].     *)
(***************************************************************************)
MinCells == 12

MARKER == "Incendios forestales vigentes"
ALERTA_PREFIX == "incendio-estado-alerta-"

td(tds, i) == tds[i + 1]

(* tag.find(name): the first such descendant, or None *)
Find(children) == IF children = <<>> THEN None ELSE Some(children[1])

(* h1 = soup.find("h1", string=lambda t: t and MARKER in t): index or 0 *)
BuscarTitulo(elems) ==
    LET hits == {i \in DOMAIN elems :
                    elems[i].tag = "h1" /\ Contains(elems[i].string, MARKER)}
    IN IF hits = {} THEN 0 ELSE CHOOSE i \in hits : \A j \in hits : i <= j

(* h1.find_all_next("table", class_="tabla"): indices, in document order *)
FindAllNextTabla(elems, h1) ==
    LET RECURSIVE Go(_)
        Go(k) == IF k > Len(elems) THEN <<>>
                 ELSE (IF elems[k].tag = "table" /\ Contains(elems[k].class, "tabla")
                       THEN <<k>> ELSE <<>>) \o Go(k + 1)
    IN Go(h1 + 1)

(* variant: the loop without its break, so the last matching table wins *)
RECURSIVE SeleccionarTabla_SinBreak(_, _)
SeleccionarTabla_SinBreak(elems, tablas) ==
    IF tablas = <<>> THEN 0
    ELSE LET t == elems[Head(tablas)]
             resto == SeleccionarTabla_SinBreak(elems, Tail(tablas))
         IN IF resto # 0 THEN resto
            ELSE IF t.thead /\ Contains(t.header_cells, "Fecha")
                            /\ Contains(t.header_cells, "Región")
                 THEN Head(tablas) ELSE 0

(* the loop of lines 90-99: the first table with a thead holding both labels *)
RECURSIVE SeleccionarTabla(_, _)
SeleccionarTabla(elems, tablas) ==
    IF tablas = <<>> THEN 0
    ELSE LET t == elems[Head(tablas)]
         IN IF ~t.thead THEN SeleccionarTabla(elems, Tail(tablas))
            ELSE IF Contains(t.header_cells, "Fecha")
                    /\ Contains(t.header_cells, "Región")
                 THEN Head(tablas)
                 ELSE SeleccionarTabla(elems, Tail(tablas))

(* columna 0: title and first class with the alert prefix *)
AlertaTitulo(celda) ==
    LET alerta_span == Find(celda.spans)
    IN IF alerta_span.some
       THEN (IF alerta_span.val.title.some THEN alerta_span.val.title.val ELSE "")
       ELSE ""

AlertaCodigo(celda) ==
    LET alerta_span == Find(celda.spans)
    IN IF alerta_span.some
       THEN LET cls == alerta_span.val.class
                hits == {i \in DOMAIN cls : cls[i] # <<>> /\ cls[i][1] = ALERTA_PREFIX}
            IN IF hits = {} THEN None
               ELSE Some(cls[CHOOSE i \in hits : \A j \in hits : i <= j])
       ELSE Some(<<>>)

(* lines 139-145 *)
Superficie(celda) ==
    LET superficie_txt == Replace(Replace(celda.text, ".", <<>>), ",", <<".">>)
    IN IF superficie_txt # <<>>
       THEN (LET f == PyFloat(superficie_txt)
             IN IF f.raised THEN f ELSE Returned(Some(f.val)))
       ELSE Returned(None)

(* variant: the first <a> that carries an href, wherever it stands *)
UrlDe_CualquierAncla(celda) ==
    LET conHref == SelectSeq(celda.anchors, LAMBDA a : a.href.some)
    IN IF conHref # <<>> THEN Some(SIDCO_BASE \o conHref[1].href.val) ELSE None

(* lines 148-170: the first <a> of the cell, if it carries an href *)
UrlDe(celda) ==
    LET a == Find(celda.anchors)
    IN IF a.some /\ a.val.href.some THEN Some(SIDCO_BASE \o a.val.href.val) ELSE None

(* lines 172-178 *)
Fecha(fecha_raw) ==
    IF fecha_raw # <<>>
    THEN (LET t == Strptime(fecha_raw) IN IF t.raised THEN None ELSE Some(t.val))
    ELSE None

(* the body of the row loop for one row of at least MinCells cells *)
ParsearFila(tds) ==
    LET superficie == Superficie(td(tds, 7))
    IN IF superficie.raised THEN superficie
       ELSE Returned([alerta_titulo |-> AlertaTitulo(td(tds, 0)),
                      alerta_codigo |-> AlertaCodigo(td(tds, 0)),
                      fecha_raw |-> td(tds, 1).text,
                      fecha |-> Fecha(td(tds, 1).text),
                      region |-> td(tds, 2).text,
                      nombre |-> td(tds, 3).text,
                      ambito |-> td(tds, 4).text,
                      comuna |-> td(tds, 5).text,
                      estado |-> td(tds, 6).text,
                      superficie_ha |-> superficie.val,
                      url_poligono |-> UrlDe(td(tds, 8)),
                      url_ficha |-> UrlDe(td(tds, 9)),
                      url_archivos |-> UrlDe(td(tds, 11))])

RECURSIVE RecorrerFilas(_, _, _)
RecorrerFilas(trs, k, filas) ==
    IF k > Len(trs) THEN Returned(filas)
    ELSE IF Len(trs[k]) < MinCells THEN RecorrerFilas(trs, k + 1, filas)
    ELSE CHOOSE out \in
           {IF fila.raised THEN fila
            ELSE CHOOSE out1 \in {RecorrerFilas(trs, k + 1, fs) :
                                    fs \in {Append(filas, fila.val)}} : TRUE :
               fila \in {ParsearFila(trs[k])}} : TRUE

(* the table the call settles on (0: none), whatever happens after *)
TablaIncendios(html) ==
    LET h1 == BuscarTitulo(html.elems)
    IN IF h1 = 0 THEN 0
       ELSE SeleccionarTabla(html.elems, FindAllNextTabla(html.elems, h1))

(* variant: the call without the check of lines 104-106 *)
parsear_tabla_incendios_SinTbody(html) ==
    LET h1 == BuscarTitulo(html.elems)
        t == TablaIncendios(html)
    IN IF h1 = 0
       THEN ValueError("No se encontró el título 'Incendios forestales vigentes'")
       ELSE IF t = 0
       THEN ValueError("No se encontró la tabla de incendios (encabezados Fecha/Región).")
       ELSE RecorrerFilas(html.rows, 1, <<>>)

parsear_tabla_incendios(html) ==
    LET h1 == BuscarTitulo(html.elems)
        t == TablaIncendios(html)
    IN IF h1 = 0
       THEN ValueError("No se encontró el título 'Incendios forestales vigentes'")
       ELSE IF t = 0
       THEN ValueError("No se encontró la tabla de incendios (encabezados Fecha/Región).")
       ELSE IF ~html.elems[t].tbody
       THEN ValueError("La tabla de incendios no tiene <tbody>.")
       ELSE RecorrerFilas(html.rows, 1, <<>>)

(***************************************************************************)
(* Listing documents checked.                                              *)
(***************************************************************************)
SeqsUpTo(S, n) == UNION {[1..k -> S] : k \in 0..n}

H1(string) ==
    [tag |-> "h1", string |-> string, class |-> <<>>, thead |-> FALSE,
     header_cells |-> <<>>, tbody |-> FALSE]

Table(class, thead, header_cells, tbody) ==
    [tag |-> "table", string |-> <<>>, class |-> class, thead |-> thead,
     header_cells |-> header_cells, tbody |-> tbody]

TablaBuena == Table(<<"tabla">>, TRUE, <<"Alerta", "Fecha", "Región", "Nombre">>, TRUE)
TablaSinCuerpo == Table(<<"tabla", "t2">>, TRUE, <<"Fecha", "Región">>, FALSE)
TablaOtraClase == Table(<<"resumen">>, TRUE, <<"Fecha", "Región">>, FALSE)
TablaSinThead == Table(<<"tabla">>, FALSE, <<>>, FALSE)
TablaSinFecha == Table(<<"tabla">>, TRUE, <<"Región", "Nombre">>, FALSE)
TablaSinRegion == Table(<<"tabla">>, TRUE, <<"Fecha", "Nombre">>, FALSE)

ElementSet ==
    {H1(<<"SIDCO - ", MARKER>>), H1(<<"Incendios extinguidos">>),
     TablaBuena, TablaSinCuerpo, TablaOtraClase, TablaSinThead,
     TablaSinFecha, TablaSinRegion}

Cell(text, spans, anchors) == [text |-> text, spans |-> spans, anchors |-> anchors]

A(href) == [href |-> Some(<<href>>)]
ASinHref == [href |-> None]

Span(title, class) == [title |-> title, class |-> class]

MkRow(n, spans, fecha, superficie, a8, a9, a11) ==
    [i \in 1..n |->
        CASE i = 1 -> Cell(<<>>, spans, <<>>)
          [] i = 2 -> Cell(fecha, <<>>, <<>>)
          [] i = 3 -> Cell(<<"Valparaíso">>, <<>>, <<>>)
          [] i = 4 -> Cell(<<"Cerro Alto">>, <<>>, <<>>)
          [] i = 5 -> Cell(<<"CONAF">>, <<>>, <<>>)
          [] i = 6 -> Cell(<<"Quilpué">>, <<>>, <<>>)
          [] i = 7 -> Cell(<<"En combate">>, <<>>, <<>>)
          [] i = 8 -> Cell(superficie, <<>>, <<>>)
          [] i = 9 -> Cell(<<>>, <<>>, a8)
          [] i = 10 -> Cell(<<>>, <<>>, a9)
          [] i = 12 -> Cell(<<>>, <<>>, a11)
          [] OTHER -> Cell(<<>>, <<>>, <<>>)]

FechaBuena ==
    <<"1", "6", "-", "n", "o", "v", "-", "2", "0", "2", "5", " ", "1", "8", ":", "3", "6">>
FechaMala == <<"3", "1", "-", "f", "e", "b", "-", "2", "0", "2", "5", " ", "9", ":", "0", "0">>
Garbage == <<"g", "a", "r", "b", "a", "g", "e">>

SpanRoja == Span(Some("Alerta Roja"), <<<<"foo">>, <<ALERTA_PREFIX, "roja">>>>)
SpanSinCodigo == Span(None, <<<<"foo">>>>)

FilaCompleta ==
    MkRow(12, <<SpanRoja>>, FechaBuena, <<"1", ".", "2", "3", "4", ",", "5">>,
          <<A("/descarga/1")>>, <<A("/ficha/1")>>, <<A("/archivos/1")>>)
FilaCorta == MkRow(3, <<>>, FechaBuena, <<>>, <<>>, <<>>, <<>>)
FilaOnce ==
    MkRow(11, <<SpanRoja>>, FechaBuena, <<"7">>, <<A("/descarga/2")>>,
          <<A("/ficha/2")>>, <<>>)
FilaDegradada ==
    MkRow(12, <<>>, Garbage, <<>>, <<>>, <<ASinHref>>, <<ASinHref, A("/archivos/3")>>)
FilaSinCodigo ==
    MkRow(13, <<SpanSinCodigo>>, FechaMala, <<"0", ",", "7", "5">>,
          <<ASinHref, A("/descarga/4")>>, <<>>, <<ASinHref>>)
FilaSuperficieMala ==
    MkRow(12, <<SpanRoja>>, FechaBuena, <<"N", "/", "A">>,
          <<A("/descarga/5")>>, <<A("/ficha/5")>>, <<A("/archivos/5")>>)

RowSet ==
    {FilaCompleta, FilaCorta, FilaOnce, FilaDegradada, FilaSinCodigo, FilaSuperficieMala}

HasTbody(elems) == \E i \in DOMAIN elems : elems[i].tag = "table" /\ elems[i].tbody

NoRet == [raised |-> FALSE, val |-> <<>>]

(***************************************************************************)
(* SpecListing: one call of parsear_tabla_incendios on a checked document. *)
(***************************************************************************)
InitListing ==
    /\ pc = "call"
    /\ \E elems \in SeqsUpTo(ElementSet, MaxElems) :
         \E rows \in (IF HasTbody(elems) THEN SeqsUpTo(RowSet, MaxRows) ELSE {<<>>}) :
            html_page = [elems |-> elems, rows |-> rows]
    /\ tabla_incendios = 0
    /\ tabla_ret = NoRet
    /\ html_ficha = <<>>
    /\ ficha_ret = NoRet
    /\ df = <<>>
    /\ idx = 0
    /\ log = <<>>

ParsearTabla ==
    /\ pc = "call"
    /\ tabla_incendios' = TablaIncendios(html_page)
    /\ tabla_ret' = parsear_tabla_incendios(html_page)
    /\ pc' = IF tabla_ret'.raised THEN "raised" ELSE "returned"
    /\ UNCHANGED <<html_page, html_ficha, ficha_ret, df, idx, log>>

NextListing == ParsearTabla

SpecListing == InitListing /\ [][NextListing]_vars

(***************************************************************************)
(* Properties of parsear_tabla_incendios, stated on the document itself.   *)
(***************************************************************************)
Min(S) == CHOOSE i \in S : \A j \in S : i <= j

Titulos(elems) ==
    {i \in DOMAIN elems :
        elems[i].tag = "h1" /\ \E k \in DOMAIN elems[i].string : elems[i].string[k] = MARKER}

Candidatas(elems) ==
    IF Titulos(elems) = {} THEN {}
    ELSE {j \in DOMAIN elems :
            /\ j > Min(Titulos(elems))
            /\ elems[j].tag = "table"
            /\ \E k \in DOMAIN elems[j].class : elems[j].class[k] = "tabla"
            /\ elems[j].thead
            /\ \E k \in DOMAIN elems[j].header_cells : elems[j].header_cells[k] = "Fecha"
            /\ \E k \in DOMAIN elems[j].header_cells : elems[j].header_cells[k] = "Región"}

SinTitulo == Titulos(html_page.elems) = {}
SinTabla == ~SinTitulo /\ Candidatas(html_page.elems) = {}
SinTbody ==
    /\ Candidatas(html_page.elems) # {}
    /\ ~html_page.elems[Min(Candidatas(html_page.elems))].tbody
PasaEstructura ==
    /\ Candidatas(html_page.elems) # {}
    /\ html_page.elems[Min(Candidatas(html_page.elems))].tbody

FilasDeDatos == SelectSeq(html_page.rows, LAMBDA tr : Len(tr) >= MinCells)

LinkColumns == {<<8, "url_poligono">>, <<9, "url_ficha">>, <<11, "url_archivos">>}

(* C1: for a document that passes the structural checks the call returns  *)
(* one record per body row of at least 12 cells, in row order, and nothing *)
(* for shorter rows.                                                       *)
C1_UnRegistroPorFila ==
    (pc # "call" /\ PasaEstructura) =>
        /\ ~tabla_ret.raised
        /\ Len(tabla_ret.val) = Len(FilasDeDatos)
        /\ \A i \in DOMAIN FilasDeDatos :
              /\ tabla_ret.val[i].fecha_raw = td(FilasDeDatos[i], 1).text
              /\ tabla_ret.val[i].region = td(FilasDeDatos[i], 2).text

(* C2 as claimed: the missing heading and the missing table raise one kind *)
(* of error, the missing body raises a different kind, and no records are  *)
(* returned in any of the three cases.                                     *)
ExcSinTitulo == parsear_tabla_incendios([elems |-> <<>>, rows |-> <<>>]).exc

C2_ErrorDistinto ==
    pc # "call" =>
        /\ (SinTitulo \/ SinTabla) =>
              (tabla_ret.raised /\ tabla_ret.exc = ExcSinTitulo)
        /\ SinTbody => (tabla_ret.raised /\ tabla_ret.exc # ExcSinTitulo)

(* C2 amended: each of the three structural failures raises ValueError,    *)
(* told apart by its message only, and the call returns no records.        *)
C2_TresFallos ==
    pc # "call" =>
        /\ SinTitulo =>
              /\ tabla_ret.raised /\ tabla_ret.exc = "ValueError"
              /\ tabla_ret.msg = "No se encontró el título 'Incendios forestales vigentes'"
        /\ SinTabla =>
              /\ tabla_ret.raised /\ tabla_ret.exc = "ValueError"
              /\ tabla_ret.msg
                   = "No se encontró la tabla de incendios (encabezados Fecha/Región)."
        /\ SinTbody =>
              /\ tabla_ret.raised /\ tabla_ret.exc = "ValueError"
              /\ tabla_ret.msg = "La tabla de incendios no tiene <tbody>."
        /\ tabla_ret.raised => "val" \notin DOMAIN tabla_ret

C2_Witness ==
    /\ pc = "raised" /\ SinTbody /\ html_page.rows # <<>>
    /\ tabla_ret.msg = "La tabla de incendios no tiene <tbody>."

(* C3: once the structure is found no row content aborts the call: every   *)
(* row of at least 12 cells yields a record, with an unparseable area or   *)
(* date and a missing link or indicator degraded to null or empty.         *)
C3_FilaNuncaAborta ==
    (pc # "call" /\ PasaEstructura) =>
        /\ pc = "returned"
        /\ Len(tabla_ret.val) = Len(FilasDeDatos)
        /\ \A i \in DOMAIN FilasDeDatos :
              LET tds == FilasDeDatos[i]
                  rec == tabla_ret.val[i]
                  area == Replace(Replace(td(tds, 7).text, ".", <<>>), ",", <<".">>)
              IN /\ ~IsFloatLiteral(area) => ~rec.superficie_ha.some
                 /\ Strptime(td(tds, 1).text).raised => ~rec.fecha.some
                 /\ td(tds, 0).spans = <<>> => rec.alerta_titulo = ""
                 /\ td(tds, 9).anchors = <<>> => ~rec.url_ficha.some

(* C7 as claimed: a link column's URL is the origin followed by the href   *)
(* whenever some anchor of the cell carries an href, and null otherwise.   *)
C7_UrlSiHayHref ==
    pc = "returned" =>
        \A i \in DOMAIN FilasDeDatos : \A c \in LinkColumns :
            LET anchors == td(FilasDeDatos[i], c[1]).anchors
                url == tabla_ret.val[i][c[2]]
            IN IF \E k \in DOMAIN anchors : anchors[k].href.some
               THEN /\ url.some
                    /\ \E k \in DOMAIN anchors :
                          /\ anchors[k].href.some
                          /\ url.val = SIDCO_BASE \o anchors[k].href.val
               ELSE ~url.some

(* C7 amended: a link column's URL is the origin followed by the href of   *)
(* the first anchor of the cell when that first anchor carries an href,    *)
(* and null otherwise (no anchor, or a first anchor without href).         *)
C7_UrlPrimerAncla ==
    pc = "returned" =>
        \A i \in DOMAIN FilasDeDatos : \A c \in LinkColumns :
            LET anchors == td(FilasDeDatos[i], c[1]).anchors
                url == tabla_ret.val[i][c[2]]
            IN IF anchors # <<>> /\ anchors[1].href.some
               THEN url = Some(SIDCO_BASE \o anchors[1].href.val)
               ELSE ~url.some

C7_Witness ==
    /\ pc = "returned"
    /\ \E i \in DOMAIN FilasDeDatos :
          LET anchors == td(FilasDeDatos[i], 11).anchors
          IN /\ Len(anchors) > 1
             /\ ~anchors[1].href.some
             /\ anchors[2].href.some
             /\ ~tabla_ret.val[i].url_archivos.some
    /\ \E i \in DOMAIN FilasDeDatos :
          /\ td(FilasDeDatos[i], 8).anchors # <<>>
          /\ tabla_ret.val[i].url_poligono = Some(SIDCO_BASE \o <<"/descarga/1">>)

(* C8: the table selected is the first one after the marker heading that   *)
(* carries the class and whose header cells include both labels; no table  *)
(* before the heading, without the class or without a label is selected,   *)
(* and no later match is preferred over an earlier one.                    *)
C8_PrimeraTablaQueCalza ==
    pc # "call" =>
        IF Candidatas(html_page.elems) = {} THEN tabla_incendios = 0
        ELSE tabla_incendios = Min(Candidatas(html_page.elems))

C8_Witness ==
    /\ pc # "call"
    /\ tabla_incendios # 0
    /\ \E j \in Candidatas(html_page.elems) : j > tabla_incendios

(***************************************************************************)
(* The detail document (ficha).  html_ficha is the sequence of its table   *)
(* elements and of <td> that stand outside any table, in document order:   *)
(*   [tag, tbody: the table has a <tbody>, rows: its <tr>, each a sequence *)
(*    of <td>];  a <td> outside a table is a node of tag "td" with one row *)
(*    of one cell.                                                         *)
(* A <td> is [text, anchors], an <a> is [onclick: its attribute or None].  *)
(***************************************************************************)
MinCeldasCoord == 4
MinCeldasCond == 2

COORD_MARKER == "Coordenadas operativas"
COND_MARKER == "CONDICIONES METEOROLOGICAS Y TOPOGRAFICAS INICIALES"

LINKMAPA ==
    <<"l", "i", "n", "k", "M", "a", "p", "a", "(", "t", "h", "i", "s", ",">>

NumClass == Digits \cup {"-", "."}

Put(datos, col, val) == (col :> val) @@ datos

(* soup.find("td", string=lambda t: t and marker in t): the node holding  *)
(* the first such <td> in document order, or 0                             *)
BuscarTd(html, marker) ==
    LET hits == {n \in DOMAIN html :
                    \E r \in DOMAIN html[n].rows : \E c \in DOMAIN html[n].rows[r] :
                        Contains(html[n].rows[r][c].text, marker)}
    IN IF hits = {} THEN 0 ELSE CHOOSE n \in hits : \A m \in hits : n <= m

(* the longest run of characters of NumClass from position p *)
RECURSIVE ClassRun(_, _)
ClassRun(s, p) ==
    IF p > Len(s) \/ s[p] \notin NumClass THEN <<>>
    ELSE <<s[p]>> \o ClassRun(s, p + 1)

(* the pattern of line 235 matched at position p: the two groups, or None *)
MatchAt(s, p) ==
    IF p + Len(LINKMAPA) - 1 > Len(s) \/ SubSeq(s, p, p + Len(LINKMAPA) - 1) # LINKMAPA
    THEN None
    ELSE CHOOSE out \in
           {CHOOSE out1 \in
              {IF g1 = <<>> \/ q1 + Len(g1) > Len(s) \/ s[q1 + Len(g1)] # "," THEN None
               ELSE CHOOSE out2 \in
                      {CHOOSE out3 \in
                         {IF g2 # <<>> /\ q2 + Len(g2) <= Len(s) /\ s[q2 + Len(g2)] = ")"
                          THEN Some(<<g1, g2>>) ELSE None :
                            g2 \in {ClassRun(s, q2)}} : TRUE :
                         q2 \in {SkipSpaces(s, q1 + Len(g1) + 1)}} : TRUE :
                 g1 \in {ClassRun(s, q1)}} : TRUE :
              q1 \in {SkipSpaces(s, p + Len(LINKMAPA))}} : TRUE

(* re.search: the match at the leftmost position that has one *)
ReSearch(s) ==
    LET hits == {p \in DOMAIN s : MatchAt(s, p).some}
    IN IF hits = {} THEN None
       ELSE MatchAt(s, CHOOSE p \in hits : \A q \in hits : p <= q)

(* lines 229-240: lat and lon of the first <a> of the cell *)
Coordenadas(celda) ==
    IF celda.anchors = <<>> THEN Returned(None)
    ELSE CHOOSE out \in
           {IF ~m.some THEN Returned(None)
            ELSE CHOOSE out1 \in
                   {IF lat.raised THEN lat
                    ELSE CHOOSE out2 \in
                           {IF lon.raised THEN lon
                            ELSE Returned(Some(<<lat.val, lon.val>>)) :
                               lon \in {PyFloat(m.val[2])}} : TRUE :
                       lat \in {PyFloat(m.val[1])}} : TRUE :
               m \in {ReSearch(IF Find(celda.anchors).val.onclick.some
                               THEN Find(celda.anchors).val.onclick.val
                               ELSE <<>>)}} : TRUE

(* lines 222-250: one row of the coordinates table *)
FilaCoordenadas(celdas, datos) ==
    IF Len(celdas) < MinCeldasCoord THEN Returned(datos)
    ELSE CHOOSE out \in
           {IF ll.raised THEN ll
            ELSE IF Contains(td(celdas, 0).text, "Coordenadas UTM")
            THEN Returned(Put(Put(datos, "utm_operativas", td(celdas, 1).text),
                              "utm_investigadas", td(celdas, 3).text))
            ELSE IF Contains(td(celdas, 0).text, "Coordenadas geográficas")
            THEN (IF ll.val.some
                  THEN Returned(Put(Put(Put(Put(datos,
                                    "geo_operativas", td(celdas, 1).text),
                                    "geo_investigadas", td(celdas, 3).text),
                                    "lat_operativa", ll.val.val[1]),
                                    "lon_operativa", ll.val.val[2]))
                  ELSE Returned(Put(Put(datos, "geo_operativas", td(celdas, 1).text),
                                    "geo_investigadas", td(celdas, 3).text)))
            ELSE Returned(datos) :
               ll \in {Coordenadas(td(celdas, 1))}} : TRUE

(* variant: the reading date stored under the listing's own column name *)
mapeo_FechaChoca ==
    ("Temperatura:" :> "meteo_temperatura") @@ ("Nubosidad:" :> "meteo_nubosidad")
    @@ ("Hum. relativa:" :> "meteo_hum_relativa")
    @@ ("Velocidad viento:" :> "meteo_vel_viento")
    @@ ("Pendiente:" :> "meteo_pendiente") @@ ("Exposición:" :> "meteo_exposicion")
    @@ ("Direccion viento:" :> "meteo_dir_viento")
    @@ ("Topografia:" :> "meteo_topografia")
    @@ ("Estacion Meteorológica:" :> "meteo_estacion") @@ ("Fecha:" :> "fecha")

mapeo ==
    ("Temperatura:" :> "meteo_temperatura") @@ ("Nubosidad:" :> "meteo_nubosidad")
    @@ ("Hum. relativa:" :> "meteo_hum_relativa")
    @@ ("Velocidad viento:" :> "meteo_vel_viento")
    @@ ("Pendiente:" :> "meteo_pendiente") @@ ("Exposición:" :> "meteo_exposicion")
    @@ ("Direccion viento:" :> "meteo_dir_viento")
    @@ ("Topografia:" :> "meteo_topografia")
    @@ ("Estacion Meteorológica:" :> "meteo_estacion") @@ ("Fecha:" :> "meteo_fecha")

(* lines 275-282: one row of the conditions table *)
FilaCondiciones(celdas, datos) ==
    IF Len(celdas) < MinCeldasCond THEN Returned(datos)
    ELSE LET etiqueta == td(celdas, 0).text
             valor == td(celdas, 1).text
         IN IF Len(etiqueta) = 1 /\ etiqueta[1] \in DOMAIN mapeo
            THEN Returned(Put(datos, mapeo[etiqueta[1]], valor))
            ELSE Returned(datos)

(* lines 221-250: the rows of the coordinates table *)
RECURSIVE RecorrerCoordenadas(_, _, _)
RecorrerCoordenadas(trs, k, datos) ==
    IF k > Len(trs) THEN Returned(datos)
    ELSE CHOOSE out \in
           {IF r.raised THEN r ELSE RecorrerCoordenadas(trs, k + 1, r.val) :
               r \in {FilaCoordenadas(trs[k], datos)}} : TRUE

(* lines 274-282: the rows of the conditions table *)
RECURSIVE RecorrerCondiciones(_, _, _)
RecorrerCondiciones(trs, k, datos) ==
    IF k > Len(trs) THEN Returned(datos)
    ELSE CHOOSE out \in
           {IF r.raised THEN r ELSE RecorrerCondiciones(trs, k + 1, r.val) :
               r \in {FilaCondiciones(trs[k], datos)}} : TRUE

(* variant: the pass without its "if td_coord_op" guard *)
PasoCoordenadas_SinGuarda(html, datos) ==
    CHOOSE out \in
      {IF td_coord_op = 0 \/ html[td_coord_op].tag # "table"
       THEN AttributeError("'NoneType' object has no attribute 'find_parent'")
       ELSE IF ~html[td_coord_op].tbody THEN Returned(datos)
       ELSE CHOOSE out1 \in {RecorrerCoordenadas(trs, 1, d) :
                               trs \in {html[td_coord_op].rows}, d \in {datos}} : TRUE :
          td_coord_op \in {BuscarTd(html, COORD_MARKER)}} : TRUE

(* lines 216-250 *)
PasoCoordenadas(html, datos) ==
    CHOOSE out \in
      {IF td_coord_op = 0 THEN Returned(datos)
       ELSE IF html[td_coord_op].tag # "table"
       THEN AttributeError("'NoneType' object has no attribute 'find'")
       ELSE IF ~html[td_coord_op].tbody THEN Returned(datos)
       ELSE CHOOSE out1 \in {RecorrerCoordenadas(trs, 1, d) :
                               trs \in {html[td_coord_op].rows}, d \in {datos}} : TRUE :
          td_coord_op \in {BuscarTd(html, COORD_MARKER)}} : TRUE

(* lines 253-282 *)
PasoCondiciones(html, datos) ==
    CHOOSE out \in
      {IF td_cond = 0 THEN Returned(datos)
       ELSE IF html[td_cond].tag # "table"
       THEN AttributeError("'NoneType' object has no attribute 'find'")
       ELSE IF ~html[td_cond].tbody THEN Returned(datos)
       ELSE CHOOSE out1 \in {RecorrerCondiciones(trs, 1, d) :
                               trs \in {html[td_cond].rows}, d \in {datos}} : TRUE :
          td_cond \in {BuscarTd(html, COND_MARKER)}} : TRUE

parsear_ficha_incendio(html) ==
    CHOOSE out \in
      {IF a.raised THEN a ELSE PasoCondiciones(html, a.val) :
          a \in {PasoCoordenadas(html, <<>>)}} : TRUE

(***************************************************************************)
(* Detail documents checked.                                               *)
(***************************************************************************)
DCell(text, anchors) == [text |-> text, anchors |-> anchors]

Onclick(o) == [onclick |-> Some(o)]
ASinOnclick == [onclick |-> None]

ArgSet ==
    {<<"-", "3", "3", ".", "4", "5">>, <<"-", "7", "0", ".", "6", "6">>,
     <<"-">>, <<"1", ".", "2", ".", "3">>, <<>>, <<"x">>}

OnclickSet ==
    {pre \o LINKMAPA \o <<" ">> \o a1 \o <<",">> \o sp \o a2 \o cl :
        pre \in {<<>>, <<"r", ";">>}, a1 \in ArgSet, a2 \in ArgSet,
        sp \in {<<>>, <<" ", " ">>}, cl \in {<<")">>, <<"]">>}}
    \cup {<<"v", "e", "r", "(", ")">>}

AnchorSeqs == {<<>>, <<ASinOnclick>>} \cup {<<Onclick(o)>> : o \in OnclickSet}

FilaTituloCoord == <<DCell(<<COORD_MARKER, " / investigadas">>, <<>>)>>
FilaUTM(as) ==
    <<DCell(<<"Coordenadas UTM", " (H19)">>, <<>>), DCell(<<"E 256000 N 6340000">>, as),
      DCell(<<>>, <<>>), DCell(<<"E 256100 N 6340100">>, <<>>)>>
FilaGeo(as) ==
    <<DCell(<<"Coordenadas geográficas">>, <<>>), DCell(<<"33 27 S 70 39 O">>, as),
      DCell(<<>>, <<>>), DCell(<<"33 28 S 70 40 O">>, <<>>)>>
FilaCoordCorta ==
    <<DCell(<<"Coordenadas UTM">>, <<>>), DCell(<<"E 1 N 2">>, <<>>), DCell(<<>>, <<>>)>>

FilaTituloCond == <<DCell(<<COND_MARKER>>, <<>>)>>
FilaMeteo(label, valor) == <<DCell(<<label>>, <<>>), DCell(<<valor>>, <<>>)>>

MeteoRowSet ==
    {FilaMeteo("Temperatura:", "25 C"), FilaMeteo("Fecha:", "16-nov-2025"),
     FilaMeteo("Presión:", "1013 hPa"), <<DCell(<<"Nubosidad:">>, <<>>)>>}

Node(tag, tbody, rows) == [tag |-> tag, tbody |-> tbody, rows |-> rows]

CoordNodes ==
    {<<>>, <<Node("td", FALSE, <<FilaTituloCoord>>)>>,
     <<Node("table", FALSE, <<FilaTituloCoord, FilaUTM(<<>>)>>)>>}
    \cup {<<Node("table", TRUE, <<FilaTituloCoord, FilaUTM(<<>>), FilaGeo(as)>>)>> :
            as \in AnchorSeqs}
    \cup {<<Node("table", TRUE, <<FilaTituloCoord, FilaGeo(as), FilaCoordCorta>>)>> :
            as \in AnchorSeqs}
    \cup {<<Node("table", TRUE, <<FilaTituloCoord, FilaUTM(as)>>)>> : as \in AnchorSeqs}

CondNodes ==
    {<<>>, <<Node("td", FALSE, <<FilaTituloCond>>)>>,
     <<Node("table", FALSE, <<FilaTituloCond, FilaMeteo("Temperatura:", "25 C")>>)>>}
    \cup {<<Node("table", TRUE, <<FilaTituloCond>> \o rs)>> :
            rs \in SeqsUpTo(MeteoRowSet, MaxRows)}

(* one table holding both titles and both kinds of rows *)
TablaUnica ==
    {<<Node("table", TRUE,
            <<FilaTituloCoord, FilaTituloCond, FilaUTM(<<>>), FilaGeo(as)>> \o rs)>> :
        as \in {<<>>, <<Onclick(LINKMAPA \o <<" ", "-", "3", ",", "4", ")">>)>>},
        rs \in SeqsUpTo(MeteoRowSet, 1)}

FichaSet == {a \o b : a \in CoordNodes, b \in CondNodes} \cup TablaUnica

(***************************************************************************)
(* SpecDetail: one call of parsear_ficha_incendio on a checked document.   *)
(***************************************************************************)
InitDetail ==
    /\ pc = "call"
    /\ html_ficha \in FichaSet
    /\ ficha_ret = NoRet
    /\ html_page = [elems |-> <<>>, rows |-> <<>>]
    /\ tabla_incendios = 0
    /\ tabla_ret = NoRet
    /\ df = <<>>
    /\ idx = 0
    /\ log = <<>>

ParsearFicha ==
    /\ pc = "call"
    /\ ficha_ret' = parsear_ficha_incendio(html_ficha)
    /\ pc' = IF ficha_ret'.raised THEN "raised" ELSE "returned"
    /\ UNCHANGED <<html_page, tabla_incendios, tabla_ret, html_ficha, df, idx, log>>

NextDetail == ParsearFicha

SpecDetail == InitDetail /\ [][NextDetail]_vars

(***************************************************************************)
(* Properties of parsear_ficha_incendio, stated on the document itself.    *)
(***************************************************************************)
HayTd(marker) ==
    \E n \in DOMAIN html_ficha : \E r \in DOMAIN html_ficha[n].rows :
        \E c \in DOMAIN html_ficha[n].rows[r] :
            \E k \in DOMAIN html_ficha[n].rows[r][c].text :
                html_ficha[n].rows[r][c].text[k] = marker

CoordKeys ==
    {"utm_operativas", "utm_investigadas", "geo_operativas", "geo_investigadas",
     "lat_operativa", "lon_operativa"}

MeteoKeys == {mapeo[l] : l \in DOMAIN mapeo}

Restrict(f, S) == [k \in DOMAIN f \cap S |-> f[k]]

(* C5: a pass whose anchor cell is absent contributes no keys and raises   *)
(* nothing, the other pass then gives what it gives alone, the keys a pass *)
(* contributes are those it contributes alone, and a document with neither *)
(* anchor yields the empty mapping.                                        *)
C5_PasosIndependientes ==
    pc # "call" =>
        /\ ~HayTd(COORD_MARKER) =>
              /\ ficha_ret = PasoCondiciones(html_ficha, <<>>)
              /\ ~ficha_ret.raised => DOMAIN ficha_ret.val \cap CoordKeys = {}
        /\ ~HayTd(COND_MARKER) =>
              /\ ficha_ret = PasoCoordenadas(html_ficha, <<>>)
              /\ ~ficha_ret.raised => DOMAIN ficha_ret.val \cap MeteoKeys = {}
        /\ (~HayTd(COORD_MARKER) /\ ~HayTd(COND_MARKER)) =>
              (~ficha_ret.raised /\ DOMAIN ficha_ret.val = {})
        /\ ~ficha_ret.raised =>
              /\ DOMAIN ficha_ret.val \subseteq CoordKeys \cup MeteoKeys
              /\ Restrict(ficha_ret.val, CoordKeys)
                    = PasoCoordenadas(html_ficha, <<>>).val
              /\ Restrict(ficha_ret.val, MeteoKeys)
                    = PasoCondiciones(html_ficha, <<>>).val

C5_Witness ==
    /\ pc = "returned"
    /\ ~HayTd(COORD_MARKER)
    /\ HayTd(COND_MARKER)
    /\ DOMAIN ficha_ret.val = {"meteo_temperatura", "meteo_fecha"}

(* C6: whatever the onclick text of the link in the operative-value cell,  *)
(* the coordinate extraction raises nothing, and latitude and longitude    *)
(* are present together or absent together.                                *)
C6_CoordenadasNuncaFallan ==
    pc # "call" =>
        /\ ~(ficha_ret.raised /\ ficha_ret.exc = "ValueError")
        /\ ~ficha_ret.raised =>
              ("lat_operativa" \in DOMAIN ficha_ret.val
                  <=> "lon_operativa" \in DOMAIN ficha_ret.val)

(***************************************************************************)
(* Spec: scrapear_incendios_y_fichas.  The browser is the environment: a   *)
(* navigation either yields a page or raises (TimeoutError), and nothing   *)
(* in the function catches an exception, so a raise ends the run.          *)
(* log records the calls made, in order.                                   *)
(***************************************************************************)
ListingOrch ==
    {[elems |-> e, rows |-> r] :
        e \in {<<H1(<<MARKER>>), TablaBuena>>},
        r \in SeqsUpTo({FilaCompleta, FilaDegradada, FilaCorta, FilaSuperficieMala},
                       MaxRows)}
    \cup {[elems |-> <<TablaBuena>>, rows |-> <<FilaCompleta>>]}

OnclickBueno ==
    LINKMAPA \o <<" ", "-", "3", "3", ".", "4", "5", ",", " ", "-", "7", "0", ".", "6", "6", ")">>
OnclickMalo == LINKMAPA \o <<" ", "-", ",", " ", "-", "7", "0", ".", "6", "6", ")">>

TablaCond ==
    Node("table", TRUE,
         <<FilaTituloCond, FilaMeteo("Temperatura:", "25 C"),
           FilaMeteo("Fecha:", "16-nov-2025")>>)

FichaOrch ==
    {<<>>,
     <<Node("table", TRUE,
            <<FilaTituloCoord, FilaUTM(<<>>), FilaGeo(<<Onclick(OnclickBueno)>>)>>),
       TablaCond>>,
     <<Node("table", TRUE, <<FilaTituloCoord, FilaGeo(<<Onclick(OnclickMalo)>>)>>),
       TablaCond>>,
     <<TablaCond>>}

Ev(ev, i) == [ev |-> ev, i |-> i]

Init ==
    /\ pc = "start"
    /\ html_page = [elems |-> <<>>, rows |-> <<>>]
    /\ tabla_incendios = 0
    /\ tabla_ret = NoRet
    /\ html_ficha = <<>>
    /\ ficha_ret = NoRet
    /\ df = <<>>
    /\ idx = 0
    /\ log = <<>>

(* lines 23-53: credentials, login, navigation to the listing page *)
IniciarSesion ==
    /\ pc = "start"
    /\ \/ /\ \E html \in ListingOrch : html_page' = html
          /\ log' = Append(log, Ev("goto_principal", 0))
          /\ pc' = "principal"
       \/ /\ pc' = "aborted"
          /\ UNCHANGED <<html_page, log>>
    /\ UNCHANGED <<tabla_incendios, tabla_ret, html_ficha, ficha_ret, df, idx>>

(* line 54 *)
ParsearPrincipal ==
    /\ pc = "principal"
    /\ tabla_incendios' = TablaIncendios(html_page)
    /\ tabla_ret' = parsear_tabla_incendios(html_page)
    /\ log' = Append(log, Ev("parsear_tabla", 0))
    /\ IF tabla_ret'.raised
       THEN pc' = "aborted" /\ df' = df
       ELSE pc' = "loop" /\ df' = tabla_ret'.val
    /\ UNCHANGED <<html_page, html_ficha, ficha_ret, idx>>

(* lines 57-60: the next row has no url_ficha; iterrows reads the rows as  *)
(* they were when the loop began                                           *)
SaltarFila ==
    /\ pc = "loop"
    /\ idx < Len(df)
    /\ ~tabla_ret.val[idx + 1].url_ficha.some
    /\ idx' = idx + 1
    /\ UNCHANGED <<pc, html_page, tabla_incendios, tabla_ret, html_ficha, ficha_ret,
                   df, log>>

(* lines 57-64: the next row has a url_ficha; page.goto and page.content *)
IrAFicha ==
    /\ pc = "loop"
    /\ idx < Len(df)
    /\ tabla_ret.val[idx + 1].url_ficha.some
    /\ idx' = idx + 1
    /\ log' = Append(log, Ev("goto_ficha", idx + 1))
    /\ \/ /\ \E html \in FichaOrch : html_ficha' = html
          /\ pc' = "ficha"
       \/ /\ pc' = "aborted"
          /\ UNCHANGED html_ficha
    /\ UNCHANGED <<html_page, tabla_incendios, tabla_ret, ficha_ret, df>>

(* line 65 *)
ParsearFichaPaso ==
    /\ pc = "ficha"
    /\ ficha_ret' = parsear_ficha_incendio(html_ficha)
    /\ log' = Append(log, Ev("parsear_ficha", idx))
    /\ pc' = IF ficha_ret'.raised THEN "aborted" ELSE "merge"
    /\ UNCHANGED <<html_page, tabla_incendios, tabla_ret, html_ficha, df, idx>>

(* lines 68-69: df.at[idx, col] = val for every item of datos_ficha *)
Fusionar ==
    /\ pc = "merge"
    /\ df' = [df EXCEPT ![idx] = ficha_ret.val @@ @]
    /\ log' = Append(log, Ev("merge", idx))
    /\ pc' = "loop"
    /\ UNCHANGED <<html_page, tabla_incendios, tabla_ret, html_ficha, ficha_ret, idx>>

(* lines 71-73 *)
Cerrar ==
    /\ pc = "loop"
    /\ idx = Len(df)
    /\ log' = Append(log, Ev("return", 0))
    /\ pc' = "returned"
    /\ UNCHANGED <<html_page, tabla_incendios, tabla_ret, html_ficha, ficha_ret, df, idx>>

Next ==
    \/ IniciarSesion
    \/ ParsearPrincipal
    \/ SaltarFila
    \/ IrAFicha
    \/ ParsearFichaPaso
    \/ Fusionar
    \/ Cerrar

Spec == Init /\ [][Next]_vars

(***************************************************************************)
(* Properties of the orchestration, stated on the calls logged.            *)
(***************************************************************************)
ListingKeys ==
    {"alerta_titulo", "alerta_codigo", "fecha_raw", "fecha", "region", "nombre",
     "ambito", "comuna", "estado", "superficie_ha", "url_poligono", "url_ficha",
     "url_archivos"}

ListadoParseado ==
    /\ \E k \in DOMAIN log : log[k].ev = "parsear_tabla"
    /\ ~tabla_ret.raised

Terminado == pc \in {"returned", "aborted"}

ConFicha(i) == tabla_ret.val[i].url_ficha.some

Visitas(i) == {k \in DOMAIN log : log[k] = Ev("goto_ficha", i)}

(* C4: once the listing is parsed, a failure while fetching or parsing one *)
(* detail page does not end the run: it ends by returning the records,     *)
(* with every record that has a detail link visited.                       *)
C4_LoteSobreviveFalla ==
    ListadoParseado =>
        /\ pc # "aborted"
        /\ pc = "returned" =>
              /\ Len(df) = Len(tabla_ret.val)
              /\ \A i \in DOMAIN df : ConFicha(i) => Cardinality(Visitas(i)) = 1

(* C9: the listing is fetched and parsed once, first; then exactly the     *)
(* records with a detail link are fetched once each, in listing order,     *)
(* each fetch followed at once by its parse and its merge.                 *)
C9_Secuencial ==
    /\ \A k \in DOMAIN log :
          /\ log[k].ev = "goto_principal" <=> k = 1
          /\ log[k].ev = "parsear_tabla" <=> k = 2
    /\ \A k \in DOMAIN log : log[k].ev = "goto_ficha" =>
          /\ ConFicha(log[k].i)
          /\ \A l \in DOMAIN log :
                (l > k /\ log[l].ev = "goto_ficha") =>
                    /\ log[k].i < log[l].i
                    /\ log[k + 1] = Ev("parsear_ficha", log[k].i)
                    /\ log[k + 2] = Ev("merge", log[k].i)
    /\ (ListadoParseado /\ Terminado) =>
          \A i \in DOMAIN tabla_ret.val :
              /\ ConFicha(i) <=> Cardinality(Visitas(i)) = 1
              /\ \A k \in Visitas(i) :
                    /\ k + 2 <= Len(log)
                    /\ log[k + 1] = Ev("parsear_ficha", i)
                    /\ log[k + 2] = Ev("merge", i)

(* C10: merging only extends the records: their number and order stay      *)
(* those of the listing, every listing field keeps its value, the keys     *)
(* merged are detail keys, disjoint from the listing keys, and the keys of *)
(* the two passes are disjoint from each other.                            *)
C10_FusionExtiende ==
    /\ pc = "merge" =>
          /\ DOMAIN ficha_ret.val \cap ListingKeys = {}
          /\ DOMAIN PasoCoordenadas(html_ficha, <<>>).val
                \cap DOMAIN PasoCondiciones(html_ficha, <<>>).val = {}
    /\ ListadoParseado =>
          /\ Len(df) = Len(tabla_ret.val)
          /\ \A i \in DOMAIN df :
                /\ ListingKeys \subseteq DOMAIN df[i]
                /\ DOMAIN df[i] \ ListingKeys \subseteq CoordKeys \cup MeteoKeys
                /\ \A k \in ListingKeys : df[i][k] = tabla_ret.val[i][k]

C10_Witness ==
    /\ pc = "returned"
    /\ Len(df) = 2
    /\ {"lat_operativa", "geo_operativas", "meteo_fecha"} \subseteq DOMAIN df[2]
    /\ DOMAIN df[1] = ListingKeys \cup {"meteo_temperatura", "meteo_fecha"}

====
